---- MODULE Spec2Model ----
(***************************************************************************)
(* Valued stock moves and shipments (trytond stock_valued).                *)
(*                                                                         *)
(* move.py     Move.get_origin_fields: per-move amount, taxes, gross price *)
(* shipment.py ShipmentValuedMixin: calc_amounts, get_amounts, store_cache *)
(*             ShipmentIn / ShipmentOut: done and cancel write the cache   *)
(*                                                                         *)
(* Money is fixed point: an integer counts thousandths of a currency unit  *)
(* (1255 is 1.255).  Quantities are whole units.  Python's None is the     *)
(* integer None below; every amount the code computes is >= 0 and record  *)
(* ids are >= 1.                                                           *)
(***************************************************************************)
EXTENDS Integers, Sequences, FiniteSets, TLC

VARIABLES
    name,                  \* __name__ of the shipment's model
    state,                 \* shipment.state
    moves,                 \* the field MOVES[__name__] of the shipment
    untaxed_amount_cache,  \* the three stored cache columns
    tax_amount_cache,
    total_amount_cache,
    valued_sale_line,      \* stock.configuration(1).valued_sale_line
    company_currency,      \* shipment.company.currency
    result,                \* what the last getter call returned
    op                     \* the last operation

vars == <<name, state, moves, untaxed_amount_cache, tax_amount_cache,
          total_amount_cache, valued_sale_line, company_currency, result, op>>

\* ------------------------------------------------------------------ bounds

MaxMoves == 2

MaxQuantity == 2

\* ---------------------------------------------------------------- constants

None == -1

_ZERO == 0

\* ------------------------------------------------------------- currencies

\* currency.currency records by id: currency 1 rounds to 0.01 (a euro),
\* currency 2 to 1 (a yen).
Currencies == {1, 2}

rounding(currency) == IF currency = 1 THEN 10 ELSE 1000

\* Currency.round: the nearest multiple of the currency's rounding, ties to
\* the even multiple (Decimal.quantize, ROUND_HALF_EVEN).  amount >= 0.
round(currency, amount) ==
    LET step == rounding(currency)
        q == amount \div step
        r == amount % step
    IN  IF 2 * r < step THEN q * step
        ELSE IF 2 * r > step THEN (q + 1) * step
        ELSE IF q % 2 = 0 THEN q * step
        ELSE (q + 1) * step

\* ------------------------------------------------------------------ moves

Taxes == {"VAT"}

NoOrigin == [model |-> "none", unit_price |-> None, taxes |-> {}]

\* What a move's origin reference can point at: nothing, a sale line (it has
\* unit_price and taxes), an inventory line (it has neither), or another
\* stock move (it has unit_price and, by this module, taxes).
OriginPrices == {None, 1500}

Origins ==
    {NoOrigin}
    \cup [model : {"sale.line"}, unit_price : OriginPrices, taxes : SUBSET Taxes]
    \cup {[model |-> "stock.inventory.line", unit_price |-> None, taxes |-> {}]}
    \cup [model : {"stock.move"}, unit_price : OriginPrices, taxes : SUBSET Taxes]

\* A move whose origin is itself a stock move carries that move's origin in
\* origin_origin.
MoveRecords(quantities, prices, currencies, states, origins, origin_origins) ==
    [quantity : quantities, unit_price : prices, currency : currencies,
     state : states, origin : origins, origin_origin : origin_origins]

\* hasattr(origin, 'unit_price')
has_unit_price(origin) == origin.model \in {"sale.line", "stock.move"}

\* origin and hasattr(origin, 'taxes')
has_taxes(origin) == origin.model \in {"sale.line", "stock.move"}

\* move.py 77-79
resolve_origin(move) ==
    IF move.origin.model = "stock.move" THEN move.origin_origin ELSE move.origin

\* origin_amount without the hasattr test: the origin's price whenever the
\* flag is set.
origin_amount_flag_only(move, flag) ==
    LET origin == resolve_origin(move)
        unit_price == IF flag THEN origin.unit_price ELSE move.unit_price
    IN  IF unit_price # None /\ unit_price # 0
        THEN LET value == move.quantity * unit_price
             IN  IF move.currency # None THEN round(move.currency, value)
                 ELSE value
        ELSE _ZERO

\* move.py 82-92: the 'amount' entry
origin_amount(move, flag) ==
    LET origin == resolve_origin(move)
        unit_price == IF flag /\ has_unit_price(origin)
                      THEN origin.unit_price
                      ELSE move.unit_price
    IN  IF unit_price # None /\ unit_price # 0
        THEN LET value == move.quantity * unit_price
             IN  IF move.currency # None THEN round(move.currency, value)
                 ELSE value
        ELSE _ZERO

\* move.py 93-96: the 'taxes' entry
origin_taxes(move) ==
    LET origin == resolve_origin(move)
    IN  IF has_taxes(origin) THEN origin.taxes ELSE {}

\* Move.get_origin_fields for one move: every requested name starts at _ZERO,
\* 'amount' and 'taxes' are then computed.
get_origin_fields(move, names, flag) ==
    [n \in names |->
        IF n = "amount" THEN origin_amount(move, flag)
        ELSE IF n = "taxes" THEN origin_taxes(move)
        ELSE _ZERO]

MoveFieldNames == {"amount", "taxes", "gross_unit_price"}

\* The Function fields of a move, as the shipment reads them.
amount(move) == get_origin_fields(move, {"amount"}, valued_sale_line)["amount"]

taxes(move) == get_origin_fields(move, {"taxes"}, valued_sale_line)["taxes"]

\* --------------------------------------------------------------- shipments

\* shipment.py 12-17: only stock.shipment.in and stock.shipment.out get the
\* mixin; both keep their valued moves in the one field modelled by `moves`.
ShipmentNames == {"stock.shipment.in", "stock.shipment.out"}

\* shipment.py 159, 191
_states_valued_cached == {"done", "cancel"}

\* The workflow of the two shipment models (trytond stock): the transitions
\* Workflow.transition lets through; any other call leaves the state alone.
_transitions(model) ==
    IF model = "stock.shipment.in"
    THEN {<<"draft", "received">>, <<"received", "done">>,
          <<"draft", "cancel">>, <<"received", "cancel">>,
          <<"cancel", "draft">>}
    ELSE {<<"draft", "waiting">>, <<"waiting", "assigned">>,
          <<"assigned", "packed">>, <<"packed", "done">>,
          <<"assigned", "waiting">>, <<"waiting", "draft">>,
          <<"packed", "waiting">>,
          <<"draft", "cancel">>, <<"waiting", "cancel">>,
          <<"assigned", "cancel">>, <<"packed", "cancel">>,
          <<"cancel", "draft">>}

ShipmentStates(model) ==
    {t[1] : t \in _transitions(model)} \cup {t[2] : t \in _transitions(model)}

\* The shipment record the methods receive as self.
Self ==
    [state |-> state, moves |-> moves,
     untaxed_amount_cache |-> untaxed_amount_cache,
     tax_amount_cache |-> tax_amount_cache,
     total_amount_cache |-> total_amount_cache]

\* shipment.py 74-76
valued_moves(shipment) == shipment.moves

RECURSIVE first_currency(_)
first_currency(ms) ==
    IF ms = << >> THEN None
    ELSE IF Head(ms).currency # None THEN Head(ms).currency
    ELSE first_currency(Tail(ms))

\* shipment.py 56-66
on_change_with_currency(shipment) ==
    LET currency_id == first_currency(valued_moves(shipment))
    IN  IF currency_id = None THEN company_currency ELSE currency_id

\* shipment.py 82-99: one (taxes, unit_price, quantity) tuple per move that
\* is not cancelled, None replaced by the default.
RECURSIVE taxable_lines_of(_)
taxable_lines_of(ms) ==
    IF ms = << >> THEN << >>
    ELSE LET move == Head(ms)
         IN  IF move.state = "cancelled" THEN taxable_lines_of(Tail(ms))
             ELSE << <<taxes(move),
                       IF move.unit_price # None THEN move.unit_price ELSE 0,
                       move.quantity>> >>
                  \o taxable_lines_of(Tail(ms))

taxable_lines(shipment) == taxable_lines_of(valued_moves(shipment))

\* Tax.compute for the one tax of the model, 20 % of the base.
RECURSIVE tax_of_lines(_, _)
tax_of_lines(lines, tax) ==
    IF lines = << >> THEN 0
    ELSE (IF tax \in Head(lines)[1]
          THEN (Head(lines)[2] * Head(lines)[3]) \div 5
          ELSE 0)
         + tax_of_lines(Tail(lines), tax)

\* TaxableMixin._get_taxes (trytond account), called at shipment.py 104: one
\* tax line per tax found on the taxable lines, its amount rounded with the
\* document's currency (self.currency).
_get_taxes(shipment) ==
    LET lines == taxable_lines(shipment)
        present == {t \in Taxes : \E i \in DOMAIN lines : t \in lines[i][1]}
    IN  [t \in present |->
            [amount |-> round(on_change_with_currency(shipment),
                              tax_of_lines(lines, t))]]

RECURSIVE sum_amounts(_)
sum_amounts(ms) ==
    IF ms = << >> THEN 0
    ELSE (IF amount(Head(ms)) # 0 THEN amount(Head(ms)) ELSE 0)
         + sum_amounts(Tail(ms))

RECURSIVE sum_rounded(_, _)
sum_rounded(tax_lines, keys) ==
    IF keys = {} THEN 0
    ELSE LET k == CHOOSE x \in keys : TRUE
         IN  round(company_currency, tax_lines[k].amount)
             + sum_rounded(tax_lines, keys \ {k})

\* shipment.py 101-112
calc_amounts(shipment) ==
    LET tax_lines == _get_taxes(shipment)
        untaxed == round(company_currency, sum_amounts(valued_moves(shipment)))
        tax == sum_rounded(tax_lines, DOMAIN tax_lines)
    IN  [untaxed_amount |-> untaxed,
         tax_amount |-> tax,
         total_amount |-> untaxed + tax]

AmountNames == {"untaxed_amount", "tax_amount", "total_amount"}

\* cache_is_used testing one cache field only.
cache_is_used_untaxed_only(shipment) ==
    /\ shipment.state \in _states_valued_cached
    /\ shipment.untaxed_amount_cache # None

\* shipment.py 121-124
cache_is_used(shipment) ==
    /\ shipment.state \in _states_valued_cached
    /\ shipment.untaxed_amount_cache # None
    /\ shipment.tax_amount_cache # None
    /\ shipment.total_amount_cache # None

\* get_amounts that never reads the cache.
get_amounts_recompute(shipment, names) ==
    [n \in names |-> calc_amounts(shipment)[n]]

\* shipment.py 114-141, for one shipment
get_amounts(shipment, names) ==
    LET all == IF cache_is_used(shipment)
               THEN [untaxed_amount |-> shipment.untaxed_amount_cache,
                     tax_amount |-> shipment.tax_amount_cache,
                     total_amount |-> shipment.total_amount_cache]
               ELSE calc_amounts(shipment)
    IN  [n \in names |-> all[n]]

\* store_cache writing the untaxed amount into the total's cache.
store_cache_total_slip(shipment) ==
    [shipment EXCEPT
        !.untaxed_amount_cache =
            get_amounts(shipment, {"untaxed_amount"})["untaxed_amount"],
        !.tax_amount_cache =
            get_amounts(shipment, {"tax_amount"})["tax_amount"],
        !.total_amount_cache =
            get_amounts(shipment, {"untaxed_amount"})["untaxed_amount"]]

\* store_cache that leaves the total's cache alone.
store_cache_without_total(shipment) ==
    [shipment EXCEPT
        !.untaxed_amount_cache =
            get_amounts(shipment, {"untaxed_amount"})["untaxed_amount"],
        !.tax_amount_cache =
            get_amounts(shipment, {"tax_amount"})["tax_amount"]]

\* shipment.py 143-149.  Each of the three reads is a Function field read: the
\* getter runs on the stored record, which the assignments do not change
\* before cls.save.
store_cache(shipment) ==
    [shipment EXCEPT
        !.untaxed_amount_cache =
            get_amounts(shipment, {"untaxed_amount"})["untaxed_amount"],
        !.tax_amount_cache =
            get_amounts(shipment, {"tax_amount"})["tax_amount"],
        !.total_amount_cache =
            get_amounts(shipment, {"total_amount"})["total_amount"]]

\* ---------------------------------------------------------------- actions

NoResult ==
    [untaxed_amount |-> None, tax_amount |-> None, total_amount |-> None]

\* The state after the inherited transition method: Workflow.transition
\* writes the target state for a record whose (state, target) is a
\* transition and filters the record out otherwise.
transition(shipment, model, target) ==
    IF <<shipment.state, target>> \in _transitions(model)
    THEN [shipment EXCEPT !.state = target]
    ELSE shipment

Save(shipment) ==
    /\ state' = shipment.state
    /\ untaxed_amount_cache' = shipment.untaxed_amount_cache
    /\ tax_amount_cache' = shipment.tax_amount_cache
    /\ total_amount_cache' = shipment.total_amount_cache

\* shipment.py 178-181, 210-213: super().done, then store_cache.  op tells a
\* call that moved the shipment to 'done' from one the workflow filtered.
done ==
    /\ Save(store_cache(transition(Self, name, "done")))
    /\ op' = IF <<state, "done">> \in _transitions(name)
             THEN "done" ELSE "done filtered"
    /\ result' = NoResult
    /\ UNCHANGED <<name, moves, valued_sale_line, company_currency>>

\* shipment.py 173-176, 205-208: super().cancel, then store_cache.
cancel ==
    /\ Save(store_cache(transition(Self, name, "cancel")))
    /\ op' = IF <<state, "cancel">> \in _transitions(name)
             THEN "cancel" ELSE "cancel filtered"
    /\ result' = NoResult
    /\ UNCHANGED <<name, moves, valued_sale_line, company_currency>>

\* The transitions this module does not override (draft, receive, wait,
\* assign, pack): the state changes, the cache columns are not touched.
workflow(target) ==
    /\ target \notin _states_valued_cached
    /\ <<state, target>> \in _transitions(name)
    /\ state' = target
    /\ op' = target
    /\ result' = NoResult
    /\ UNCHANGED <<name, moves, untaxed_amount_cache, tax_amount_cache,
                   total_amount_cache, valued_sale_line, company_currency>>

\* A write on one of the shipment's moves (quantity, unit price, state).
write_move(i, move) ==
    /\ i \in DOMAIN moves
    /\ moves[i] # move
    /\ moves' = [moves EXCEPT ![i] = move]
    /\ op' = "write_move"
    /\ result' = NoResult
    /\ UNCHANGED <<name, state, untaxed_amount_cache, tax_amount_cache,
                   total_amount_cache, valued_sale_line, company_currency>>

\* A read of the three Function fields of the shipment.
read_amounts ==
    /\ result' = get_amounts(Self, AmountNames)
    /\ op' = "get_amounts"
    /\ UNCHANGED <<name, state, moves, untaxed_amount_cache, tax_amount_cache,
                   total_amount_cache, valued_sale_line, company_currency>>

\* ----------------------------------------------------- the shipment lifecycle

\* The moves of the lifecycle model: priced in currency 1 and taxed through
\* their sale line; a write changes the quantity, and with it the amounts.
SaleLine == [model |-> "sale.line", unit_price |-> 1500, taxes |-> {"VAT"}]

LifecycleMoves ==
    MoveRecords(1..MaxQuantity, {1255}, {1}, {"draft"}, {SaleLine}, {NoOrigin})

SeqsUpTo(S, n) == UNION {[1..k -> S] : k \in 1..n}

Init ==
    /\ name \in ShipmentNames
    /\ state = "draft"
    /\ moves \in SeqsUpTo(LifecycleMoves, MaxMoves)
    /\ untaxed_amount_cache = None
    /\ tax_amount_cache = None
    /\ total_amount_cache = None
    /\ valued_sale_line \in BOOLEAN
    /\ company_currency \in Currencies
    /\ result = NoResult
    /\ op = "create"

Next ==
    \/ done
    \/ cancel
    \/ \E target \in ShipmentStates(name) : workflow(target)
    \/ \E i \in 1..MaxMoves, move \in LifecycleMoves : write_move(i, move)
    \/ read_amounts

Spec == Init /\ [][Next]_vars

\* The same lifecycle driven through the client's buttons only: done and
\* cancel are called where the workflow has the transition.
NextButtons ==
    \/ (<<state, "done">> \in _transitions(name) /\ done)
    \/ (<<state, "cancel">> \in _transitions(name) /\ cancel)
    \/ \E target \in ShipmentStates(name) : workflow(target)
    \/ \E i \in 1..MaxMoves, move \in LifecycleMoves : write_move(i, move)
    \/ read_amounts

SpecButtons == Init /\ [][NextButtons]_vars

\* -------------------------------------------- lifecycle: what is checked

Cache ==
    [untaxed_amount |-> untaxed_amount_cache,
     tax_amount |-> tax_amount_cache,
     total_amount |-> total_amount_cache]

CacheUnset ==
    /\ untaxed_amount_cache = None
    /\ tax_amount_cache = None
    /\ total_amount_cache = None

CacheSet ==
    /\ untaxed_amount_cache # None
    /\ tax_amount_cache # None
    /\ total_amount_cache # None

\* C1: right after a transition to 'done' or 'cancel' the three cache fields
\* hold the amounts computed from the shipment's moves at that moment.
C1_CacheHoldsAmountsOfTransition ==
    op \in {"done", "cancel"} => Cache = calc_amounts(Self)

\* C4: while a shipment stays in 'done' or 'cancel' with its cache written,
\* no step (a write on its moves included) changes what get_amounts returns,
\* and a read returns the cache fields.
C4_CachedReadsAreStable ==
    [][(/\ state \in _states_valued_cached
        /\ CacheSet
        /\ state' = state)
       => /\ get_amounts(Self, AmountNames)' = get_amounts(Self, AmountNames)
          /\ (op' = "get_amounts" => result' = Cache)]_vars

\* C4 witness: a read in a cached state returned the cache although the moves
\* now compute to something else.
C4_Witness ==
    /\ op = "get_amounts"
    /\ state \in _states_valued_cached
    /\ result = Cache
    /\ result # calc_amounts(Self)

\* C5: what get_amounts returns satisfies total = untaxed + tax, in every
\* reachable state and for every read made.
C5_TotalIsUntaxedPlusTax ==
    /\ LET r == get_amounts(Self, AmountNames)
       IN  r.total_amount = r.untaxed_amount + r.tax_amount
    /\ op = "get_amounts"
       => result.total_amount = result.untaxed_amount + result.tax_amount

\* C5 witness: a read served from the cache, with a tax part.
C5_Witness ==
    /\ op = "get_amounts"
    /\ cache_is_used(Self)
    /\ result.tax_amount > 0
    /\ result.untaxed_amount > 0

\* C10: the three cache fields are all unset or all set; only done and cancel
\* change them; get_amounts changes neither them nor the state.
C10_CacheAllOrNothing ==
    /\ [](CacheUnset \/ CacheSet)
    /\ [][Cache' # Cache
          => op' \in {"done", "cancel", "done filtered", "cancel filtered"}]_vars
    /\ [][op' = "get_amounts" => (Cache' = Cache /\ state' = state)]_vars

\* C10 witness: a read of a shipment whose cache was written.
C10_Witness ==
    /\ op = "get_amounts"
    /\ CacheSet
    /\ state = "done"

\* ------------------------------------------------ get_amounts as a function

\* Stored shipments as get_amounts can meet them: any state of the workflow,
\* each cache column NULL or not (the columns are nullable, and __register__,
\* shipment.py 161-171, renames the columns of an older schema into them).
InitRead ==
    /\ name \in ShipmentNames
    /\ state \in ShipmentStates(name)
    /\ moves \in SeqsUpTo(LifecycleMoves, MaxMoves)
    /\ untaxed_amount_cache \in {None, 1260}
    /\ tax_amount_cache \in {None, 250}
    /\ total_amount_cache \in {None, 1510}
    /\ valued_sale_line \in BOOLEAN
    /\ company_currency \in Currencies
    /\ result = NoResult
    /\ op = "create"

NextRead == read_amounts

SpecRead == InitRead /\ [][NextRead]_vars

\* C8: get_amounts returns the cache fields when the state is 'done' or
\* 'cancel' and all three cache fields are set, and the freshly computed
\* calc_amounts values for all three amounts in every other case.
C8_CacheOrComputed ==
    op = "get_amounts"
    => result = IF state \in {"done", "cancel"} /\ CacheSet
                THEN Cache
                ELSE calc_amounts(Self)

\* C8 witness: a read of a done or cancelled shipment with one cache field
\* unset (the others set) returned the computed amounts, not the cache.
C8_Witness ==
    /\ op = "get_amounts"
    /\ state \in {"done", "cancel"}
    /\ untaxed_amount_cache # None
    /\ total_amount_cache = None
    /\ result = calc_amounts(Self)
    /\ result.untaxed_amount # untaxed_amount_cache

\* ------------------------------------------ get_origin_fields as a function

MovePrices == {None, 0, 1255, 2000}

\* Every move of the bounds: its origin is no stock move, or is a stock move
\* with an origin of its own.
AllMoves ==
    MoveRecords(0..MaxQuantity, MovePrices, Currencies \cup {None}, {"draft"},
                {o \in Origins : o.model # "stock.move"}, {NoOrigin})
    \cup MoveRecords(0..MaxQuantity, MovePrices, Currencies \cup {None},
                     {"draft"}, {o \in Origins : o.model = "stock.move"},
                     Origins)

NoFields == [n \in MoveFieldNames |-> IF n = "taxes" THEN {} ELSE None]

InitMove ==
    /\ name = "stock.shipment.in"
    /\ state = "draft"
    /\ moves \in [1..1 -> AllMoves]
    /\ untaxed_amount_cache = None
    /\ tax_amount_cache = None
    /\ total_amount_cache = None
    /\ valued_sale_line \in BOOLEAN
    /\ company_currency = 1
    /\ result = NoFields
    /\ op = "create"

\* A read of the Function fields of the move.
read_origin_fields ==
    /\ result' = get_origin_fields(moves[1], MoveFieldNames, valued_sale_line)
    /\ op' = "get_origin_fields"
    /\ UNCHANGED <<name, state, moves, untaxed_amount_cache, tax_amount_cache,
                   total_amount_cache, valued_sale_line, company_currency>>

NextMove == read_origin_fields

SpecMove == InitMove /\ [][NextMove]_vars

\* The record the origin reference stands for: the origin, or the origin's
\* origin when the origin is a stock move.
OriginRecord == 
    IF moves[1].origin.model = "stock.move"
    THEN moves[1].origin_origin ELSE moves[1].origin

OriginHasUnitPrice == OriginRecord.model \in {"sale.line", "stock.move"}

Product(price) == IF price = None THEN 0 ELSE moves[1].quantity * price

\* C3 as stated: amount = round(quantity * unit_price, currency digits), the
\* unit price being the origin record's when valued_sale_line is set and the
\* move's own otherwise, zero when it is absent.  A move without a currency
\* has 2 currency digits (move.py 61-65).
C3_AmountAsStated ==
    op = "get_origin_fields"
    => result["amount"] =
         LET price == IF valued_sale_line
                      THEN (IF OriginHasUnitPrice
                            THEN OriginRecord.unit_price ELSE None)
                      ELSE moves[1].unit_price
             currency == IF moves[1].currency = None THEN 1
                         ELSE moves[1].currency
         IN  round(currency, Product(price))

\* C3 amended: the unit price is the origin record's when valued_sale_line
\* is set and that record has a unit_price attribute, the move's own
\* otherwise; the product is rounded with the move's currency when the move
\* has one and left as it is otherwise; zero when the unit price is absent.
C3_AmountAmended ==
    op = "get_origin_fields"
    => result["amount"] =
         LET price == IF valued_sale_line /\ OriginHasUnitPrice
                      THEN OriginRecord.unit_price
                      ELSE moves[1].unit_price
         IN  IF moves[1].currency = None THEN Product(price)
             ELSE round(moves[1].currency, Product(price))

\* C3 witness: the flag is set, the origin has no unit_price attribute and the
\* amount is the rounded product with the move's own price.
C3_Witness ==
    /\ op = "get_origin_fields"
    /\ valued_sale_line
    /\ ~OriginHasUnitPrice
    /\ moves[1].currency = 1
    /\ moves[1].unit_price = 1255
    /\ moves[1].quantity = 1
    /\ result["amount"] = 1260

\* C7: the gross price get_origin_fields returns is read from the move or
\* from its origin record depending on the configuration, like the amount:
\* the price of the record the amount is computed from.
C7_GrossPriceIsRead ==
    op = "get_origin_fields"
    => result["gross_unit_price"] =
         LET price == IF valued_sale_line /\ OriginHasUnitPrice
                      THEN OriginRecord.unit_price
                      ELSE moves[1].unit_price
         IN  IF price = None THEN 0 ELSE price

\* ----------------------------------------------- calc_amounts as a function

\* The moves of a supplier or customer shipment: unit price and currency are
\* required on them.
CalcMoves ==
    MoveRecords(1..MaxQuantity, {1255, 2000}, Currencies,
                {"draft", "cancelled"}, {NoOrigin, SaleLine}, {NoOrigin})

InitCalc ==
    /\ name \in ShipmentNames
    /\ state = "draft"
    /\ moves \in SeqsUpTo(CalcMoves, MaxMoves)
    /\ untaxed_amount_cache = None
    /\ tax_amount_cache = None
    /\ total_amount_cache = None
    /\ valued_sale_line \in BOOLEAN
    /\ company_currency \in Currencies
    /\ result = NoResult
    /\ op = "create"

\* A call of calc_amounts on the shipment.
read_calc_amounts ==
    /\ result' = calc_amounts(Self)
    /\ op' = "calc_amounts"
    /\ UNCHANGED <<name, state, moves, untaxed_amount_cache, tax_amount_cache,
                   total_amount_cache, valued_sale_line, company_currency>>

NextCalc == read_calc_amounts

SpecCalc == InitCalc /\ [][NextCalc]_vars

RECURSIVE SumOver(_, _)
SumOver(indices, f) ==
    IF indices = {} THEN 0
    ELSE LET i == CHOOSE x \in indices : TRUE
         IN  f[i] + SumOver(indices \ {i}, f)

NotCancelled == {i \in DOMAIN moves : moves[i].state # "cancelled"}

\* C2: the untaxed amount of calc_amounts is the (rounded) sum of the amount
\* of the moves that are not cancelled.
C2_UntaxedSkipsCancelledMoves ==
    op = "calc_amounts"
    => result.untaxed_amount =
         round(company_currency,
               SumOver(NotCancelled, [i \in DOMAIN moves |-> amount(moves[i])]))

IsRounded(currency, value) == value % rounding(currency) = 0

\* C6: each of the three amounts of calc_amounts is rounded to the precision
\* of the shipment's currency field.
C6_RoundedInShipmentCurrency ==
    op = "calc_amounts"
    => /\ IsRounded(on_change_with_currency(Self), result.untaxed_amount)
       /\ IsRounded(on_change_with_currency(Self), result.tax_amount)
       /\ IsRounded(on_change_with_currency(Self), result.total_amount)

\* quantity * unit_price of a move, with the unit price taxable_lines hands
\* over, rounded as the move's amount is.
LineAmount(move) ==
    LET value == move.quantity
                 * (IF move.unit_price = None THEN 0 ELSE move.unit_price)
    IN  IF move.currency = None THEN value ELSE round(move.currency, value)

\* C9: the untaxed amount is computed over the base of the tax amount: the
\* sum of quantity * unit_price over the lines of taxable_lines (the moves
\* that are not cancelled, each with the move's own unit price).
C9_UntaxedOverTaxableLines ==
    op = "calc_amounts"
    => result.untaxed_amount =
         round(company_currency,
               SumOver(NotCancelled,
                       [i \in DOMAIN moves |-> LineAmount(moves[i])]))

====
